---- MODULE Spec2Model ----
(***************************************************************************)
(* Per-tenant RAG pipeline and document lifecycle of Carely                *)
(* (customer_facing_agent/Customer_Agent.py, class CustomerSupportAgent).  *)
(*                                                                         *)
(* State: the three MongoDB collections the agent uses (shared by all      *)
(* tenants, every record carrying its company_id), the Chroma persist      *)
(* directories on disk, and one cached agent object per tenant             *)
(* (app/services.py get_or_create_rag_system).                             *)
(*                                                                         *)
(* Collaborators outside the repository are modelled by what the code      *)
(* relies on:                                                              *)
(*  - a Chroma object is a bag of index entries.  Chroma(persist_directory)*)
(*    opens the directory (creating it when missing) and reads its         *)
(*    entries; Chroma.from_documents(docs, persist_directory) opens the    *)
(*    directory the same way and ADDS docs to the entries already there;   *)
(*    an object keeps the entries it had when it was built, whatever       *)
(*    happens to the directory afterwards;                                 *)
(*  - a collaborator call can raise: each operation takes a fault point f  *)
(*    as input, "none" meaning that no collaborator raised.                *)
(***************************************************************************)
EXTENDS Integers, Sequences, FiniteSets, Bags, TLC

\* ---------------------------------------------------------------- bounds
MaxId == 4          \* ObjectIds that can be generated in a run
MaxAsk == 1         \* exchanges an agent may hold before asking stops
MaxCalls == 4       \* calls made in a run
MaxAgents == 2      \* agents constructed for a tenant between two resets
MaxChat == 11       \* exchanges answered in a row in a run of SpecChat

\* ------------------------------------------------------- program constants
HistoryLimit == 10  \* exchanges kept by ask_question / loaded at start
TopN == 5           \* documents kept by the reranker / fallback retriever

\* ----------------------------------------------------------------- inputs
Tenants == {"A", "B"}
Paths == {"up/d1.pdf", "up/d2.pdf"}
Questions == {"q"}
ChatQuestions == {"q", "r"}
Threads == {1, 2}   \* requests the server handles at the same time

\* what the file at a path holds when upload_file reads it: text, scanned
\* pages without text, or nothing the loader can return
Contents == {"text", "scan", "void"}

\* loader.load(): number of pages the loader returns for the file
Pages(p, c) ==
  CASE c = "void" -> 0
    [] c = "scan" -> 1
    [] p = "up/d1.pdf" -> 2
    [] OTHER -> 1

\* text_splitter.split_documents(): number of chunks the pages split into
\* (scanned pages have no text, hence no chunk)
NumChunks(p, c) ==
  CASE c # "text" -> 0
    [] p = "up/d1.pdf" -> 3
    [] OTHER -> 2

\* os.path.basename(pdf_path)
FileName(p) ==
  CASE p = "up/d1.pdf" -> "d1.pdf"
    [] OTHER -> "d2.pdf"

FileNames == {FileName(p) : p \in Paths}

\* str(ObjectId): the 24-digit hexadecimal text of an ObjectId
Str(oid) == <<"hex", oid>>

\* one directory for every company: the company id left out of the name
PersistDirShared(company_id) == <<"./chroma_db_", "">>

\* f"./chroma_db_{str(self.company_id)}"
PersistDir(company_id) == <<"./chroma_db_", company_id>>

Dirs == {PersistDir(t) : t \in Tenants}

\* the collaborator call that raises during an operation ("none": no call)
UploadFaults == {"none", "load", "build", "store", "complete", "rerank", "chain"}
DeleteFaults == {"none", "chunks", "record", "open", "rebuild", "rerank", "chain"}
WipeFaults == {"none", "rmtree"}
AskFaults == {"none", "invoke", "rerank", "save"}
NewFaults == {"none", "rerank", "chain"}

VARIABLES
  Company_Documents,      \* set of Document records
  Company_Embeddings,     \* set of chunk records
  Company_Conversations,  \* set of saved conversations
  disk,                   \* persist directory -> [exists, docs]
  agent,                  \* tenant -> the cached CustomerSupportAgent
  nextId,                 \* next ObjectId to be generated
  calls,                  \* calls made so far
  asked,                  \* tenant -> the exchanges answered since the agent's
                          \* history was last empty or loaded
  cache,                  \* tenant -> its entry of the process-wide agent cache
  threads,                \* request thread -> its position and local variables
  last                    \* the call that returned last, and its result

vars == <<Company_Documents, Company_Embeddings, Company_Conversations,
          disk, agent, nextId, calls, asked, cache, threads, last>>

\* ---------------------------------------------------------------- values
NoStore == [loaded |-> FALSE, docs |-> EmptyBag]
NoDir == [exists |-> FALSE, docs |-> EmptyBag]
NoRetriever == [kind |-> "None", docs |-> EmptyBag]
NoChain == [set |-> FALSE, kind |-> "None", docs |-> EmptyBag]

\* the chunks split_documents produces for file p, as Chroma receives them
\* from an agent of company t
SplitDocs(t, p, c) ==
  {[company_id |-> t, source |-> p, chunk_index |-> i] : i \in 0..(NumChunks(p, c) - 1)}

\* the index entry made of a chunk record of Company_Embeddings
\* (Document(page_content=chunk_text, metadata=record["metadata"]))
EntryOf(r) ==
  [company_id |-> r.company_id, source |-> r.source, chunk_index |-> r.chunk_index]

\* the bag holding one copy of EntryOf(r) for every record r of S
EntriesOf(S) ==
  LET E == {EntryOf(r) : r \in S}
  IN [e \in E |-> Cardinality({r \in S : EntryOf(r) = e})]

\* ------------------------------------------------------------ Mongo queries
DocsOf(t) == {d \in Company_Documents : d.company_id = t}
ChunksOf(t) == {c \in Company_Embeddings : c.company_id = t}

\* documents_collection.find_one({"company_id", "file_path"})
FindByPath(docs, t, p) == {d \in docs : d.company_id = t /\ d.file_path = p}

\* find_one({"file_name"}): the company left out of the filter
FindByNameAnyTenant(docs, t, n) == {d \in docs : d.file_name = n}

\* documents_collection.find_one({"company_id", "file_name"})
FindByName(docs, t, n) == {d \in docs : d.company_id = t /\ d.file_name = n}

\* update_one({"company_id", "file_path"}, {"$set": fields}, upsert): the
\* fields are set on the matching record; with upsert and no match a record
\* is inserted under a new _id
SetFields(d, status, err, done, pages, chunks) ==
  [d EXCEPT !.processing_status = status,
            !.error_message = IF err THEN TRUE ELSE @,
            !.total_pages = IF done THEN pages ELSE @,
            !.total_chunks = IF done THEN chunks ELSE @]

UpdateOneNoUpsert(docs, t, p, status, err, done, pages, chunks, upsert, oid) ==
  LET M == FindByPath(docs, t, p)
  IN IF M # {}
     THEN (docs \ M) \cup {SetFields(d, status, err, done, pages, chunks) : d \in M}
     ELSE docs

UpdateOne(docs, t, p, status, err, done, pages, chunks, upsert, oid) ==
  LET M == FindByPath(docs, t, p)
      fresh == [_id |-> oid, company_id |-> t, file_path |-> p,
                file_name |-> FileName(p), processing_status |-> "none",
                error_message |-> FALSE, total_pages |-> 0, total_chunks |-> 0]
  IN IF M # {}
     THEN (docs \ M) \cup {SetFields(d, status, err, done, pages, chunks) : d \in M}
     ELSE IF upsert
          THEN docs \cup {SetFields(fresh, status, err, done, pages, chunks)}
          ELSE docs

\* get_company_documents()
GetCompanyDocuments(t) ==
  {[file_name |-> d.file_name, status |-> d.processing_status,
    total_pages |-> d.total_pages, total_chunks |-> d.total_chunks,
    company_id |-> d.company_id] : d \in DocsOf(t)}

\* ------------------------------------------------------------------ Chroma
\* Chroma(persist_directory=dir): open the directory, creating it if missing
\* (what from_documents has done when it raises before adding anything)
OpenDir(dk, dir) == [dk EXCEPT ![dir] = [exists |-> TRUE, docs |-> @.docs]]

\* from_documents over a directory emptied first: only docs are in it
FromDocumentsFresh(dk, dir, docs) ==
  [dk EXCEPT ![dir] = [exists |-> TRUE, docs |-> docs]]

\* Chroma.from_documents(docs, ..., persist_directory=dir) + persist()
FromDocuments(dk, dir, docs) ==
  [dk EXCEPT ![dir] = [exists |-> TRUE, docs |-> @.docs (+) docs]]

\* shutil.rmtree(dir)
RmTree(dk, dir) == [dk EXCEPT ![dir] = NoDir]

\* _setup_retriever(): reranking retriever, or the basic one if the
\* cross-encoder cannot be set up
SetupRetriever(a, rerankFails) ==
  [a EXCEPT !.compression_retriever =
      [kind |-> IF rerankFails THEN "basic" ELSE "rerank", docs |-> a.vector_store.docs]]

\* _initialize_rag_chain(): the chain runs over the current retriever
InitializeRagChain(a) ==
  [a EXCEPT !.rag_chain = [set |-> TRUE, kind |-> a.compression_retriever.kind,
                           docs |-> a.compression_retriever.docs]]

\* ------------------------------------------------------------------- Init
FreshAgent ==
  [vector_store |-> NoStore,
   compression_retriever |-> [kind |-> "unset", docs |-> EmptyBag],
   rag_chain |-> NoChain,
   conversation_history |-> <<>>,
   response_times |-> <<>>]

\* app.config without the tenant's rag_key; constructed counts the agents
\* constructed for the tenant since the entry was last dropped
NoEntry == [cached |-> FALSE, constructed |-> 0]

\* a thread between two requests
IdleThread ==
  [pc |-> "idle", op |-> "", company_id |-> "", arg |-> "", content |-> "",
   document_id |-> 0, record |-> {}, remaining |-> {}, alone |-> TRUE,
   consistent |-> TRUE]

NoCall == [op |-> "init", company_id |-> "A", arg |-> "", ok |-> TRUE,
           out |-> "", docs |-> {}]

Init ==
  /\ Company_Documents = {}
  /\ Company_Embeddings = {}
  /\ Company_Conversations = {}
  /\ disk = [d \in Dirs |-> NoDir]
  /\ agent = [t \in Tenants |-> FreshAgent]
  /\ nextId = 1
  /\ calls = 0
  /\ asked = [t \in Tenants |-> <<>>]
  /\ cache = [t \in Tenants |-> NoEntry]
  /\ threads = [i \in Threads |-> IdleThread]
  /\ last = NoCall

\* the first n elements of a sequence (s[:n])
FirstN(s, n) == IF Len(s) <= n THEN s ELSE SubSeq(s, 1, n)

\* the last n elements of a sequence (s[-n:])
LastN(s, n) == IF Len(s) <= n THEN s ELSE SubSeq(s, Len(s) - n + 1, Len(s))

\* _load_conversation_history()
LoadConversationHistory(a, t) ==
  LET S == {c \in Company_Conversations : c.company_id = t}
  IN IF S # {}
     THEN [a EXCEPT !.conversation_history = LastN((CHOOSE c \in S : TRUE).history, HistoryLimit)]
     ELSE a

\* _load_existing_data()
LoadExistingData(a, t, f) ==
  IF DocsOf(t) # {}
  THEN IF disk[PersistDir(t)].exists
       THEN LET a1 == [a EXCEPT !.vector_store =
                          [loaded |-> TRUE, docs |-> disk[PersistDir(t)].docs]]
                a2 == SetupRetriever(a1, f = "rerank")
            IN IF f = "chain"
               THEN a2      \* the chain raised: caught, history not loaded
               ELSE LoadConversationHistory(InitializeRagChain(a2), t)
       ELSE LoadConversationHistory(a, t)
  ELSE a

\* CustomerSupportAgent(...): a new agent object replaces the cached one
\* (process restart, or first request after the cache entry was dropped)
NewAgent(t, f) ==
  /\ agent' = [agent EXCEPT ![t] = LoadExistingData(FreshAgent, t, f)]
  /\ asked' = [asked EXCEPT ![t] = agent'[t].conversation_history]
  /\ last' = [NoCall EXCEPT !.op = "new_agent", !.company_id = t]
  /\ UNCHANGED <<Company_Documents, Company_Embeddings, Company_Conversations,
                 disk, nextId>>

\* ------------------------------------------------------------ upload_file
\* _store_embeddings_in_mongodb(docs, document_id, file_path): one record per
\* chunk, stamped with str(document_id)
StoreRecordsDropped(t, docs, document_id) == {}

StoreRecords(t, docs, document_id) ==
  {[company_id |-> t, document_id |-> document_id, chunk_index |-> e.chunk_index,
    source |-> e.source] : e \in docs}

\* the except branch of upload_file: the record is marked failed (upsert)
MarkFailed(docs, t, p, oid) ==
  UpdateOne(docs, t, p, "failed", TRUE, FALSE, 0, 0, TRUE, oid)

\* "Check if this file was already processed for this company": a record
\* exists for the path AND the persist directory exists
AlreadyProcessed(docs, dk, t, p) ==
  FindByPath(docs, t, p) # {} /\ dk[PersistDir(t)].exists

\* The whole of upload_file(pdf_path) on the agent of company t, the file
\* holding c.  Result: the new collections, disk and agent, and the boolean
\* returned.  The code hands the chunks to Chroma.from_documents without
\* looking at their number; what from_documents does with an empty list
\* depends on the chromadb release: it raises once the directory is open
\* (emptyRaises), or it returns an empty index.
UploadOutcome(t, p, c, f, emptyRaises) ==
  LET dir == PersistDir(t)
      a == agent[t]
      inserted == FindByPath(Company_Documents, t, p) = {}
      new_id == nextId                        \* _id given by the upsert
      document_id ==                          \* str(ObjectId()), line 246
        Str(IF inserted THEN nextId + 1 ELSE nextId)
      \* used: the ObjectIds of this call that went into a collection
      out(docs, embs, dk, ag, ok) ==
        [docs |-> docs, embs |-> embs, disk |-> dk, agent |-> ag, ok |-> ok,
         used |-> (IF docs = Company_Documents \/ ~inserted THEN 0 ELSE 1)
                  + (IF embs = Company_Embeddings THEN 0 ELSE 1)]
  IN
  IF AlreadyProcessed(Company_Documents, disk, t, p)
  THEN \* "File already processed. Loading existing vector store..."
       LET a1 == [a EXCEPT !.vector_store = [loaded |-> TRUE, docs |-> disk[dir].docs]]
           a2 == SetupRetriever(a1, f = "rerank")
       IN IF f = "chain"
          THEN out(MarkFailed(Company_Documents, t, p, new_id), Company_Embeddings,
                   disk, a2, FALSE)
          ELSE out(Company_Documents, Company_Embeddings, disk,
                   InitializeRagChain(a2), TRUE)
  ELSE \* (also reached when the record exists and the directory does not)
       LET d1 == UpdateOne(Company_Documents, t, p, "processing", FALSE, FALSE,
                           0, 0, TRUE, new_id)
       IN
       IF f = "load"
       THEN out(MarkFailed(d1, t, p, new_id), Company_Embeddings, disk, a, FALSE)
       ELSE IF Pages(p, c) = 0
       THEN \* "No content found in PDF file"
            out(UpdateOne(d1, t, p, "failed", TRUE, FALSE, 0, 0, FALSE, new_id),
                Company_Embeddings, disk, a, FALSE)
       ELSE
       LET docs == SplitDocs(t, p, c)
       IN
       IF f = "build" \/ (docs = {} /\ emptyRaises)
       THEN \* from_documents raised after opening the directory
            out(MarkFailed(d1, t, p, new_id), Company_Embeddings,
                OpenDir(disk, dir), a, FALSE)
       ELSE
       LET dk == FromDocuments(disk, dir, SetToBag(docs))
           a1 == [a EXCEPT !.vector_store = [loaded |-> TRUE, docs |-> dk[dir].docs]]
           \* an exception while storing is printed and swallowed
           embs == IF f = "store" THEN Company_Embeddings
                   ELSE Company_Embeddings \cup StoreRecords(t, docs, document_id)
       IN
       IF f = "complete"
       THEN out(MarkFailed(d1, t, p, new_id), embs, dk, a1, FALSE)
       ELSE
       LET d2 == UpdateOne(d1, t, p, "completed", FALSE, TRUE, Pages(p, c),
                           Cardinality(docs), FALSE, new_id)
           a2 == SetupRetriever(a1, f = "rerank")
       IN IF f = "chain"
          THEN out(MarkFailed(d2, t, p, new_id), embs, dk, a2, FALSE)
          ELSE out(d2, embs, dk, InitializeRagChain(a2), TRUE)

UploadFile(t, p, c, f, emptyRaises) ==
  LET r == UploadOutcome(t, p, c, f, emptyRaises)
  IN /\ nextId + r.used <= MaxId + 1
     /\ Company_Documents' = r.docs
     /\ Company_Embeddings' = r.embs
     /\ disk' = r.disk
     /\ agent' = [agent EXCEPT ![t] = r.agent]
     /\ nextId' = nextId + r.used
     /\ last' = [NoCall EXCEPT !.op = "upload_file", !.company_id = t, !.arg = p,
                               !.ok = r.ok]
     /\ UNCHANGED <<Company_Conversations, asked>>

\* -------------------------------------------------------- delete_document
\* delete_many({"company_id"}): the document left out of the filter
DeleteChunksOfCompany(embs, t, document_id) == {c \in embs : c.company_id # t}

\* Step 2: delete_many({"company_id", "document_id": str(document_id)}), what
\* is left of the chunk store
DeleteChunks(embs, t, document_id) ==
  {c \in embs : ~(c.company_id = t /\ c.document_id = Str(document_id))}

\* The whole of delete_document(file_name) on the agent of company t.
DeleteOutcome(t, file_name, f) ==
  LET dir == PersistDir(t)
      a == agent[t]
      found == FindByName(Company_Documents, t, file_name)
      out(docs, embs, dk, ag, ok, why) ==
        [docs |-> docs, embs |-> embs, disk |-> dk, agent |-> ag, ok |-> ok,
         out |-> why]
  IN
  IF found = {}
  THEN out(Company_Documents, Company_Embeddings, disk, a, FALSE, "not found")
  ELSE
  LET document_record == CHOOSE d \in found : TRUE
      document_id == document_record._id
  IN
  IF f = "chunks"
  THEN out(Company_Documents, Company_Embeddings, disk, a, FALSE, "error")
  ELSE
  LET embs == DeleteChunks(Company_Embeddings, t, document_id)
  IN
  IF f = "record"
  THEN out(Company_Documents, embs, disk, a, FALSE, "error")
  ELSE
  LET \* Step 3: delete_one({"company_id", "file_name"})
      docs == Company_Documents \ {document_record}
      \* Step 4: find({"company_id"}) on the chunk store, then rebuild
      remaining_embeddings == {c \in embs : c.company_id = t}
      torn == [a EXCEPT !.vector_store = NoStore,
                        !.compression_retriever = NoRetriever,
                        !.rag_chain = NoChain]
  IN
  IF remaining_embeddings = {}
  THEN out(docs, embs, RmTree(disk, dir), torn, TRUE, "deleted")
  ELSE
  IF f \in {"open", "rebuild"}
  THEN \* from_documents raised once the directory was removed, before or
       \* after opening it again: "Continue even if vector store update fails"
       out(docs, embs,
           IF f = "open" THEN RmTree(disk, dir) ELSE OpenDir(RmTree(disk, dir), dir),
           a, TRUE, "deleted")
  ELSE
  LET dk == FromDocuments(RmTree(disk, dir), dir, EntriesOf(remaining_embeddings))
      a1 == [a EXCEPT !.vector_store = [loaded |-> TRUE, docs |-> dk[dir].docs]]
      a2 == SetupRetriever(a1, f = "rerank")
  IN IF f = "chain"
     THEN out(docs, embs, dk, a2, TRUE, "deleted")
     ELSE out(docs, embs, dk, InitializeRagChain(a2), TRUE, "deleted")

DeleteDocument(t, file_name, f) ==
  LET r == DeleteOutcome(t, file_name, f)
  IN /\ Company_Documents' = r.docs
     /\ Company_Embeddings' = r.embs
     /\ disk' = r.disk
     /\ agent' = [agent EXCEPT ![t] = r.agent]
     /\ last' = [NoCall EXCEPT !.op = "delete_document", !.company_id = t,
                               !.arg = file_name, !.ok = r.ok, !.out = r.out]
     /\ UNCHANGED <<Company_Conversations, nextId, asked>>

\* ---------------------------------------------------- delete_company_data
\* delete_many({}): the company filter left out, nothing is left
DeleteManyUnfiltered(S, t) == {}

\* collection.delete_many({"company_id": self.company_id}): what is left
DeleteMany(S, t) == {x \in S : x.company_id # t}

WipeData(t, f) ==
  /\ Company_Documents' = DeleteMany(Company_Documents, t)
  /\ Company_Embeddings' = DeleteMany(Company_Embeddings, t)
  /\ Company_Conversations' = DeleteMany(Company_Conversations, t)
  /\ disk' = IF f = "rmtree" THEN disk ELSE RmTree(disk, PersistDir(t))

DeleteCompanyData(t, f) ==
  /\ WipeData(t, f)
  /\ last' = [NoCall EXCEPT !.op = "delete_company_data", !.company_id = t]
  /\ UNCHANGED <<agent, nextId, asked>>

\* ------------------------------------------------------------ ask_question
\* what the retriever of a chain can hand to the prompt: the TopN best
\* entries of its index, in an order that depends on the question
Retrieve(docs) ==
  LET E == BagToSet(docs)
      n == IF Cardinality(E) < TopN THEN Cardinality(E) ELSE TopN
  IN {S \in SUBSET E : Cardinality(S) = n}

\* _save_conversation_history(): upsert of the company's conversation
SaveConversationHistory(convs, t, history) ==
  {c \in convs : c.company_id # t} \cup {[company_id |-> t, history |-> history]}

\* ask_question without its try/except: what the chain raises escapes
AnswerOfUncaught(a, f) ==
  IF ~a.rag_chain.set THEN "sentinel"
  ELSE IF f = "invoke" \/ (f = "rerank" /\ a.rag_chain.kind = "rerank") THEN "raise"
  ELSE "answer"

\* what ask_question returns on agent a when the collaborator call f raises:
\* the sentinel without a chain; the error string when the chain invocation
\* raises (the reranker is part of the chain only if the chain was built over
\* the reranking retriever); the answer otherwise, also when saving raises
AnswerOf(a, f) ==
  IF ~a.rag_chain.set THEN "sentinel"
  ELSE IF f = "invoke" \/ (f = "rerank" /\ a.rag_chain.kind = "rerank") THEN "error"
  ELSE "answer"

\* ask_question with the response time recorded before the chain is invoked:
\* a failed invocation leaves it in the list
AskQuestionTimesFirst(t, q, f) ==
  LET a == agent[t]
      out == AnswerOf(a, f)
  IN
  /\ IF out # "answer"
     THEN /\ last' = [NoCall EXCEPT !.op = "ask_question", !.company_id = t,
                                    !.arg = q, !.ok = FALSE, !.out = out]
          /\ agent' = [agent EXCEPT ![t] =
                [a EXCEPT !.response_times =
                   IF out = "error" THEN Append(@, "time") ELSE @]]
          /\ UNCHANGED <<Company_Conversations, asked>>
     ELSE \E S \in Retrieve(a.rag_chain.docs) :
          LET times == Append(a.response_times, "time")
              hist == Append(a.conversation_history, <<q, "answer">>)
              trim == Len(hist) > HistoryLimit
              history == IF trim THEN LastN(hist, HistoryLimit) ELSE hist
          IN /\ agent' = [agent EXCEPT ![t] =
                   [a EXCEPT !.conversation_history = history,
                             !.response_times =
                                IF trim THEN LastN(times, HistoryLimit) ELSE times]]
             /\ Company_Conversations' =
                   IF f = "save" THEN Company_Conversations
                   ELSE SaveConversationHistory(Company_Conversations, t, history)
             /\ asked' = [asked EXCEPT ![t] = Append(@, <<q, "answer">>)]
             /\ last' = [NoCall EXCEPT !.op = "ask_question", !.company_id = t,
                                       !.arg = q, !.out = "answer", !.docs = S]
  /\ UNCHANGED <<Company_Documents, Company_Embeddings, disk, nextId>>

\* ask_question(question)
AskQuestion(t, q, f) ==
  LET a == agent[t]
      out == AnswerOf(a, f)
  IN
  /\ IF out # "answer"
     THEN /\ last' = [NoCall EXCEPT !.op = "ask_question", !.company_id = t,
                                    !.arg = q, !.ok = FALSE, !.out = out]
          /\ UNCHANGED <<agent, Company_Conversations, asked>>
     ELSE \E S \in Retrieve(a.rag_chain.docs) :
          LET times == Append(a.response_times, "time")
              hist == Append(a.conversation_history, <<q, "answer">>)
              trim == Len(hist) > HistoryLimit
              history == IF trim THEN LastN(hist, HistoryLimit) ELSE hist
          IN /\ agent' = [agent EXCEPT ![t] =
                   [a EXCEPT !.conversation_history = history,
                             !.response_times =
                                IF trim THEN LastN(times, HistoryLimit) ELSE times]]
             /\ Company_Conversations' =
                   IF f = "save" THEN Company_Conversations
                   ELSE SaveConversationHistory(Company_Conversations, t, history)
             /\ asked' = [asked EXCEPT ![t] = Append(@, <<q, "answer">>)]
             /\ last' = [NoCall EXCEPT !.op = "ask_question", !.company_id = t,
                                       !.arg = q, !.out = "answer", !.docs = S]
  /\ UNCHANGED <<Company_Documents, Company_Embeddings, disk, nextId>>

\* ---------------------------------------------- clear_conversation_history
ClearConversationHistory(t) ==
  /\ agent' = [agent EXCEPT ![t] = [@ EXCEPT !.conversation_history = <<>>,
                                             !.response_times = <<>>]]
  /\ Company_Conversations' = SaveConversationHistory(Company_Conversations, t, <<>>)
  /\ asked' = [asked EXCEPT ![t] = <<>>]
  /\ last' = [NoCall EXCEPT !.op = "clear_conversation_history", !.company_id = t]
  /\ UNCHANGED <<Company_Documents, Company_Embeddings, disk, nextId>>

\* ---------------------------------------------------- RetrievalEngine.query
\* what RetrievalEngine.query does on an engine whose chain was initialised
\* or not: without a chain it raises ValueError, and nothing catches what the
\* chain invocation raises
QueryOutcome(initialized, f) ==
  IF ~initialized THEN "raise"
  ELSE IF f = "invoke" THEN "raise"
  ELSE "answer"

\* RetrievalEngine(vector_store, ...) built over the store of the agent of t,
\* with or without setup_retriever() and initialize_chain(), then query(q)
RetrievalEngineQuery(t, q, initialized, f) ==
  /\ initialized => agent[t].vector_store.loaded
  /\ last' = [NoCall EXCEPT !.op = "query", !.company_id = t, !.arg = q,
                            !.ok = (QueryOutcome(initialized, f) = "answer"),
                            !.out = QueryOutcome(initialized, f)]
  /\ UNCHANGED <<Company_Documents, Company_Embeddings, Company_Conversations,
                 disk, agent, nextId, asked>>

\* ------------------------------------------------------------------- Next
\* one call on the agent of a tenant of T, in which at most a collaborator
\* call of F raises
Call(T, F) ==
  \/ \E t \in T, f \in NewFaults \cap F : NewAgent(t, f)
  \/ \E t \in T, p \in Paths, c \in Contents, f \in UploadFaults \cap F :
       \E e \in (IF c = "scan" THEN BOOLEAN ELSE {TRUE}) : UploadFile(t, p, c, f, e)
  \/ \E t \in T, n \in FileNames, f \in DeleteFaults \cap F : DeleteDocument(t, n, f)
  \/ \E t \in T, f \in WipeFaults \cap F : DeleteCompanyData(t, f)
  \/ \E t \in T, q \in Questions, f \in AskFaults \cap F :
       Len(agent[t].conversation_history) < MaxAsk /\ AskQuestion(t, q, f)
  \/ \E t \in T : ClearConversationHistory(t)

Faults == UploadFaults \cup DeleteFaults \cup WipeFaults \cup AskFaults \cup NewFaults

\* the calls of one tenant, one after the other, collaborators failing or
\* not
Next ==
  /\ calls < MaxCalls
  /\ calls' = calls + 1
  /\ Call({"A"}, Faults)
  /\ UNCHANGED <<cache, threads>>

Spec == Init /\ [][Next]_vars

\* the calls of all tenants, in any order, when no collaborator fails
NextOk ==
  /\ calls < MaxCalls
  /\ calls' = calls + 1
  /\ Call(Tenants, {"none"})
  /\ UNCHANGED <<cache, threads>>

SpecOk == Init /\ [][NextOk]_vars

\* a conversation of one tenant: a document is uploaded, then questions are
\* asked, the history cleared and the agent restarted in any order
NextChat ==
  /\ UNCHANGED <<calls, cache, threads>>
  /\ \/ UploadFile("A", "up/d2.pdf", "text", "none", TRUE)
     \/ \E q \in ChatQuestions, f \in {"none", "invoke"} :
          Len(asked["A"]) < MaxChat /\ AskQuestion("A", q, f)
     \/ ClearConversationHistory("A")
     \/ NewAgent("A", "none")
     \/ \E q \in Questions, i \in BOOLEAN, f \in {"none", "invoke"} :
          RetrievalEngineQuery("A", q, i, f)

SpecChat == Init /\ [][NextChat]_vars

\* ------------------------------------------------- the process-wide cache
\* get_or_create_rag_system(), the test `rag_key not in current_app.config`
GetCheck(i, t) ==
  /\ threads[i].pc = "idle"
  /\ threads' = [threads EXCEPT ![i] =
       [IdleThread EXCEPT !.op = "request", !.company_id = t,
                          !.pc = IF cache[t].cached THEN "use" ELSE "g_construct"]]
  /\ UNCHANGED <<Company_Documents, Company_Embeddings, Company_Conversations,
                 disk, agent, nextId, calls, asked, cache, last>>

\* get_or_create_rag_system(), rag_system = CustomerSupportAgent(...)
GetConstruct(i) ==
  LET t == threads[i].company_id
  IN /\ threads[i].pc = "g_construct"
     /\ cache[t].constructed < MaxAgents
     /\ NewAgent(t, "none")
     /\ cache' = [cache EXCEPT ![t].constructed = @ + 1]
     /\ threads' = [threads EXCEPT ![i].pc = "g_store"]
     /\ UNCHANGED calls

\* get_or_create_rag_system(), current_app.config[rag_key] = rag_system
GetStore(i) ==
  LET t == threads[i].company_id
  IN /\ threads[i].pc = "g_store"
     /\ cache' = [cache EXCEPT ![t].cached = TRUE]
     /\ threads' = [threads EXCEPT ![i].pc = "use"]
     /\ UNCHANGED <<Company_Documents, Company_Embeddings, Company_Conversations,
                    disk, agent, nextId, calls, asked, last>>

\* webhook_handler: a CustomerSupportAgent is constructed for the message and
\* never put in the cache
Webhook(i, t) ==
  /\ threads[i].pc = "idle"
  /\ cache[t].constructed < MaxAgents
  /\ NewAgent(t, "none")
  /\ cache' = [cache EXCEPT ![t].constructed = @ + 1]
  /\ threads' = [threads EXCEPT ![i] =
       [IdleThread EXCEPT !.op = "webhook", !.company_id = t, !.pc = "use"]]
  /\ UNCHANGED calls

\* the request is served with the agent it was given: the upload and
\* ask_question routes, or the reply to the webhook message
Use(i) ==
  LET t == threads[i].company_id
  IN /\ threads[i].pc = "use"
     /\ IF threads[i].op = "webhook"
        THEN /\ last' = [NoCall EXCEPT !.op = "webhook", !.company_id = t]
             /\ UNCHANGED <<Company_Documents, Company_Embeddings,
                            Company_Conversations, disk, agent, nextId, asked>>
        ELSE \/ UploadFile(t, "up/d2.pdf", "text", "none", TRUE)
             \/ /\ Len(agent[t].conversation_history) < MaxAsk
                /\ AskQuestion(t, "q", "none")
     /\ threads' = [threads EXCEPT ![i] = IdleThread]
     /\ UNCHANGED <<calls, cache>>

\* the reset_rag route: delete_company_data() on the cached agent if there is
\* one (it catches what it raises), the cache entry dropped, status success
ResetRag(t, f) ==
  /\ IF cache[t].cached
     THEN WipeData(t, f)
     ELSE UNCHANGED <<Company_Documents, Company_Embeddings,
                      Company_Conversations, disk>>
  /\ cache' = [cache EXCEPT ![t] = NoEntry]
  /\ last' = [NoCall EXCEPT !.op = "reset_rag", !.company_id = t, !.out = "success"]
  /\ UNCHANGED <<agent, nextId, calls, asked, threads>>

\* the server process is restarted: app.config starts without agents and no
\* request is in flight
Restart ==
  /\ cache' = [t \in Tenants |-> NoEntry]
  /\ threads' = [i \in Threads |-> IdleThread]
  /\ last' = [NoCall EXCEPT !.op = "restart"]
  /\ UNCHANGED <<Company_Documents, Company_Embeddings, Company_Conversations,
                 disk, agent, nextId, calls, asked>>

\* the requests of one tenant handled by concurrent threads of one process
NextCache ==
  \/ \E i \in Threads : GetCheck(i, "A")
  \/ \E i \in Threads : GetConstruct(i)
  \/ \E i \in Threads : GetStore(i)
  \/ \E i \in Threads : Webhook(i, "A")
  \/ \E i \in Threads : Use(i)
  \/ \E f \in WipeFaults : ResetRag("A", f)
  \/ Restart

SpecCache == Init /\ [][NextCache]_vars

\* ------------------------------------ upload_file and delete_document, step
\* by step: two requests of one tenant run on its cached agent at the same
\* time, each collaborator call being one step
\* the chunks of the chunk store, of the index the agent holds and of the
\* persisted index are the same
StoreIsIndex(t) ==
  /\ {EntryOf(c) : c \in ChunksOf(t)} = BagToSet(agent[t].vector_store.docs)
  /\ {EntryOf(c) : c \in ChunksOf(t)} = BagToSet(disk[PersistDir(t)].docs)

\* thread i starts working with the local variables of rec (a request is
\* taken by the first thread that is free); a thread has run alone when no
\* other request was in progress while it ran
Begin(i, rec) ==
  /\ \A k \in Threads : k < i => threads[k].pc # "idle"
  /\ calls < MaxCalls
  /\ calls' = calls + 1
  /\ threads' = [j \in Threads |->
       IF j = i
       THEN [rec EXCEPT !.alone = \A k \in Threads \ {i} : threads[k].pc = "idle",
                        !.consistent = StoreIsIndex(rec.company_id)]
       ELSE IF threads[j].pc = "idle" THEN threads[j]
       ELSE [threads[j] EXCEPT !.alone = FALSE]]

\* thread i returns from its call
Return(i, op, ok, out) ==
  /\ threads' = [threads EXCEPT ![i] = IdleThread]
  /\ last' = [NoCall EXCEPT !.op = op, !.company_id = threads[i].company_id,
                            !.arg = threads[i].arg, !.ok = ok, !.out = out]

\* line 246: document_id = str(ObjectId())
UStart(i, t, p, c) ==
  /\ threads[i].pc = "idle"
  /\ nextId + 2 <= MaxId + 1
  /\ Begin(i, [IdleThread EXCEPT !.pc = "u_find", !.op = "upload_file",
                                 !.company_id = t, !.arg = p, !.content = c,
                                 !.document_id = nextId])
  /\ nextId' = nextId + 1
  /\ UNCHANGED <<Company_Documents, Company_Embeddings, Company_Conversations,
                 disk, agent, asked, last>>

\* lines 252-259: find_one of the record, os.path.exists of the directory
UFind(i) ==
  LET th == threads[i]
  IN /\ th.pc = "u_find"
     /\ threads' = [threads EXCEPT ![i].pc =
          IF AlreadyProcessed(Company_Documents, disk, th.company_id, th.arg)
          THEN "u_reload" ELSE "u_upsert"]
     /\ UNCHANGED <<Company_Documents, Company_Embeddings, Company_Conversations,
                    disk, agent, nextId, asked, calls, last>>

\* lines 260-266: the persisted index is loaded, return True
UReload(i) ==
  LET th == threads[i]
      t == th.company_id
      a1 == [agent[t] EXCEPT !.vector_store =
               [loaded |-> TRUE, docs |-> disk[PersistDir(t)].docs]]
  IN /\ th.pc = "u_reload"
     /\ agent' = [agent EXCEPT ![t] = InitializeRagChain(SetupRetriever(a1, FALSE))]
     /\ Return(i, "upload_file", TRUE, "")
     /\ UNCHANGED <<Company_Documents, Company_Embeddings, Company_Conversations,
                    disk, nextId, asked, calls>>

\* lines 268-282: the record is upserted with status processing
UUpsert(i) ==
  LET th == threads[i]
      inserted == FindByPath(Company_Documents, th.company_id, th.arg) = {}
  IN /\ th.pc = "u_upsert"
     /\ Company_Documents' = UpdateOne(Company_Documents, th.company_id, th.arg,
                                       "processing", FALSE, FALSE, 0, 0, TRUE, nextId)
     /\ nextId' = IF inserted THEN nextId + 1 ELSE nextId
     /\ threads' = [threads EXCEPT ![i].pc = "u_load"]
     /\ UNCHANGED <<Company_Embeddings, Company_Conversations, disk, agent,
                    asked, calls, last>>

\* lines 284-319: the file is loaded and split; without pages the record is
\* marked failed and False returned
ULoad(i) ==
  LET th == threads[i]
  IN /\ th.pc = "u_load"
     /\ IF Pages(th.arg, th.content) = 0
        THEN /\ Company_Documents' = UpdateOne(Company_Documents, th.company_id,
                    th.arg, "failed", TRUE, FALSE, 0, 0, FALSE, 0)
             /\ Return(i, "upload_file", FALSE, "")
        ELSE /\ threads' = [threads EXCEPT ![i].pc = "u_build"]
             /\ UNCHANGED <<Company_Documents, last>>
     /\ UNCHANGED <<Company_Embeddings, Company_Conversations, disk, agent,
                    nextId, asked, calls>>

\* lines 321-330: Chroma.from_documents on the persist directory, persist()
UBuild(i) ==
  LET th == threads[i]
      t == th.company_id
      dk == FromDocuments(disk, PersistDir(t),
                          SetToBag(SplitDocs(t, th.arg, th.content)))
  IN /\ th.pc = "u_build"
     /\ disk' = dk
     /\ agent' = [agent EXCEPT ![t].vector_store =
                    [loaded |-> TRUE, docs |-> dk[PersistDir(t)].docs]]
     /\ threads' = [threads EXCEPT ![i].pc = "u_store"]
     /\ UNCHANGED <<Company_Documents, Company_Embeddings, Company_Conversations,
                    nextId, asked, calls, last>>

\* line 333: the chunks are inserted in Company_Embeddings
UStore(i) ==
  LET th == threads[i]
      t == th.company_id
  IN /\ th.pc = "u_store"
     /\ Company_Embeddings' = Company_Embeddings \cup
          StoreRecords(t, SplitDocs(t, th.arg, th.content), Str(th.document_id))
     /\ threads' = [threads EXCEPT ![i].pc = "u_complete"]
     /\ UNCHANGED <<Company_Documents, Company_Conversations, disk, agent,
                    nextId, asked, calls, last>>

\* lines 335-347: the record is updated to completed, with the counts
UComplete(i) ==
  LET th == threads[i]
  IN /\ th.pc = "u_complete"
     /\ Company_Documents' = UpdateOne(Company_Documents, th.company_id, th.arg,
          "completed", FALSE, TRUE, Pages(th.arg, th.content),
          NumChunks(th.arg, th.content), FALSE, 0)
     /\ threads' = [threads EXCEPT ![i].pc = "u_chain"]
     /\ UNCHANGED <<Company_Embeddings, Company_Conversations, disk, agent,
                    nextId, asked, calls, last>>

\* lines 349-356: retriever and chain over the agent's vector store, return
\* True
UChain(i) ==
  LET th == threads[i]
      t == th.company_id
  IN /\ th.pc = "u_chain"
     /\ agent' = [agent EXCEPT ![t] =
                    InitializeRagChain(SetupRetriever(agent[t], FALSE))]
     /\ Return(i, "upload_file", TRUE, "")
     /\ UNCHANGED <<Company_Documents, Company_Embeddings, Company_Conversations,
                    disk, nextId, asked, calls>>

\* lines 651-667: find_one of the record by file name
DFind(i, t, n) ==
  LET found == FindByName(Company_Documents, t, n)
  IN /\ threads[i].pc = "idle"
     /\ IF found = {}
        THEN /\ last' = [NoCall EXCEPT !.op = "delete_document", !.company_id = t,
                                       !.arg = n, !.ok = FALSE, !.out = "not found"]
             /\ UNCHANGED <<threads, calls>>
        ELSE /\ Begin(i, [IdleThread EXCEPT !.pc = "d_chunks",
                             !.op = "delete_document", !.company_id = t,
                             !.arg = n, !.record = {CHOOSE d \in found : TRUE}])
             /\ UNCHANGED last
     /\ UNCHANGED <<Company_Documents, Company_Embeddings, Company_Conversations,
                    disk, agent, nextId, asked>>

\* lines 670-675: delete_many of the chunks carrying str(record _id)
DChunks(i) ==
  LET th == threads[i]
  IN /\ th.pc = "d_chunks"
     /\ Company_Embeddings' = DeleteChunks(Company_Embeddings, th.company_id,
                                           (CHOOSE d \in th.record : TRUE)._id)
     /\ threads' = [threads EXCEPT ![i].pc = "d_record"]
     /\ UNCHANGED <<Company_Documents, Company_Conversations, disk, agent,
                    nextId, asked, calls, last>>

\* lines 680-684: delete_one of the record by company and file name
DRecord(i) ==
  LET th == threads[i]
  IN /\ th.pc = "d_record"
     /\ Company_Documents' =
          Company_Documents \ FindByName(Company_Documents, th.company_id, th.arg)
     /\ threads' = [threads EXCEPT ![i].pc = "d_remaining"]
     /\ UNCHANGED <<Company_Embeddings, Company_Conversations, disk, agent,
                    nextId, asked, calls, last>>

\* lines 692-696: the chunks the company has left are read
DRemaining(i) ==
  LET th == threads[i]
      found == ChunksOf(th.company_id)
  IN /\ th.pc = "d_remaining"
     /\ threads' = [threads EXCEPT ![i].remaining = found,
                                   ![i].pc = IF found = {} THEN "d_teardown"
                                             ELSE "d_rmtree"]
     /\ UNCHANGED <<Company_Documents, Company_Embeddings, Company_Conversations,
                    disk, agent, nextId, asked, calls, last>>

\* lines 699-702: the persist directory is removed
DRmtree(i) ==
  LET th == threads[i]
  IN /\ th.pc = "d_rmtree"
     /\ disk' = RmTree(disk, PersistDir(th.company_id))
     /\ threads' = [threads EXCEPT ![i].pc = "d_rebuild"]
     /\ UNCHANGED <<Company_Documents, Company_Embeddings, Company_Conversations,
                    agent, nextId, asked, calls, last>>

\* lines 704-726: the index is made again from the chunks read
DRebuild(i) ==
  LET th == threads[i]
      t == th.company_id
      dk == FromDocuments(disk, PersistDir(t), EntriesOf(th.remaining))
  IN /\ th.pc = "d_rebuild"
     /\ disk' = dk
     /\ agent' = [agent EXCEPT ![t].vector_store =
                    [loaded |-> TRUE, docs |-> dk[PersistDir(t)].docs]]
     /\ threads' = [threads EXCEPT ![i].pc = "d_chain"]
     /\ UNCHANGED <<Company_Documents, Company_Embeddings, Company_Conversations,
                    nextId, asked, calls, last>>

\* lines 728-731, 763-772: retriever and chain again, success returned
DChain(i) ==
  LET th == threads[i]
      t == th.company_id
  IN /\ th.pc = "d_chain"
     /\ agent' = [agent EXCEPT ![t] =
                    InitializeRagChain(SetupRetriever(agent[t], FALSE))]
     /\ Return(i, "delete_document", TRUE, "deleted")
     /\ UNCHANGED <<Company_Documents, Company_Embeddings, Company_Conversations,
                    disk, nextId, asked, calls>>

\* lines 738-747, 763-772: no chunk is left, the index is torn down
DTeardown(i) ==
  LET th == threads[i]
      t == th.company_id
  IN /\ th.pc = "d_teardown"
     /\ disk' = RmTree(disk, PersistDir(t))
     /\ agent' = [agent EXCEPT ![t] =
          [@ EXCEPT !.vector_store = NoStore,
                    !.compression_retriever = NoRetriever,
                    !.rag_chain = NoChain]]
     /\ Return(i, "delete_document", TRUE, "deleted")
     /\ UNCHANGED <<Company_Documents, Company_Embeddings, Company_Conversations,
                    nextId, asked, calls>>

\* upload_file and delete_document calls of one tenant, by concurrent threads
\* on the tenant's agent, no collaborator failing
NextRace ==
  /\ UNCHANGED cache
  /\ \/ \E i \in Threads, p \in Paths, c \in {"text", "void"} : UStart(i, "A", p, c)
     \/ \E i \in Threads : UFind(i)
     \/ \E i \in Threads : UReload(i)
     \/ \E i \in Threads : UUpsert(i)
     \/ \E i \in Threads : ULoad(i)
     \/ \E i \in Threads : UBuild(i)
     \/ \E i \in Threads : UStore(i)
     \/ \E i \in Threads : UComplete(i)
     \/ \E i \in Threads : UChain(i)
     \/ \E i \in Threads, n \in FileNames : DFind(i, "A", n)
     \/ \E i \in Threads : DChunks(i)
     \/ \E i \in Threads : DRecord(i)
     \/ \E i \in Threads : DRemaining(i)
     \/ \E i \in Threads : DRmtree(i)
     \/ \E i \in Threads : DRebuild(i)
     \/ \E i \in Threads : DChain(i)
     \/ \E i \in Threads : DTeardown(i)

SpecRace == Init /\ [][NextRace]_vars

\* ================================================================ claims
\* what the formulas below look at
Dir(t) == disk[PersistDir(t)]

\* the chunk records of company t that the ingestion of path p wrote
ChunksFrom(embs, t, p) == {c \in embs : c.company_id = t /\ c.source = p}

\* the index entries that came from path p
EntriesFrom(docs, p) == {e \in BagToSet(docs) : e.source = p}

\* every index the agent of t can answer from, and the persisted one
Indexes(t) ==
  {agent[t].vector_store.docs, agent[t].compression_retriever.docs,
   agent[t].rag_chain.docs, Dir(t).docs}

PathOf(n) == CHOOSE p \in Paths : FileName(p) = n

DeleteSucceeded == last.op = "delete_document" /\ last.ok

\* C1: after delete_document(file_name) returns success, get_company_documents
\* no longer lists the document and the chunk store holds no chunk written by
\* its ingestion.
C1_DeleteRemovesRecordAndChunks ==
  DeleteSucceeded =>
    /\ \A d \in GetCompanyDocuments(last.company_id) : d.file_name # last.arg
    /\ ChunksFrom(Company_Embeddings, last.company_id, PathOf(last.arg)) = {}

\* C2: with two ingested documents D1 and D2, after delete_document(D1)
\* succeeds and the index was rebuilt, the live index holds only chunks of D2:
\* no retrieval can return a chunk of D1.
C2_RebuildDropsDeletedChunks ==
  (/\ DeleteSucceeded
   /\ \E d \in DocsOf(last.company_id) : d.processing_status = "completed"
   /\ agent[last.company_id].rag_chain.set)
  => /\ EntriesFrom(agent[last.company_id].vector_store.docs, PathOf(last.arg)) = {}
     /\ EntriesFrom(agent[last.company_id].rag_chain.docs, PathOf(last.arg)) = {}
     /\ EntriesFrom(Dir(last.company_id).docs, PathOf(last.arg)) = {}

TornDown(t) ==
  /\ ~Dir(t).exists
  /\ agent[t].vector_store = NoStore
  /\ agent[t].compression_retriever = NoRetriever
  /\ agent[t].rag_chain = NoChain

\* C3: when the tenant's only document, successfully uploaded, is deleted with
\* success, the index is torn down (directory removed, vector_store,
\* compression_retriever and rag_chain None), so that ask_question returns the
\* sentinel from then on.
C3_DeleteOnlyDocumentTearsDown ==
  [][\A t \in Tenants :
       (/\ last'.op = "delete_document" /\ last'.ok /\ last'.company_id = t
        /\ Cardinality(DocsOf(t)) = 1
        /\ \A d \in DocsOf(t) : /\ d.file_name = last'.arg
                                /\ d.processing_status = "completed"
                                /\ d.total_chunks > 0)
       => TornDown(t)']_vars

\* C4: once a call has returned, the chunks of the tenant's chunk store are
\* the chunks of the tenant's live index: none is in one and not in the other.
C4_StoreEqualsLiveIndex ==
  \A t \in Tenants :
    {EntryOf(c) : c \in ChunksOf(t)} = BagToSet(agent[t].vector_store.docs)

\* number of ingestions of path p whose chunks the store holds for company t
SetsOf(embs, t, p) == Cardinality({c.document_id : c \in ChunksFrom(embs, t, p)})

AtMostOnce(n) == IF n > 1 THEN n ELSE 1

\* the step is a call of upload_file(p) on the agent of t
IsUpload(t, p) ==
  last'.op = "upload_file" /\ last'.company_id = t /\ last'.arg = p

\* C5: upload_file called again for a path whose Document record is still
\* there leaves exactly one record for the path and adds no second set of
\* chunks for it, in the chunk store or in the index.
C5_ReuploadDoesNotDuplicate ==
  [][\A t \in Tenants, p \in Paths :
       (IsUpload(t, p) /\ FindByPath(Company_Documents, t, p) # {})
       => /\ Cardinality(FindByPath(Company_Documents', t, p)) = 1
          /\ SetsOf(Company_Embeddings', t, p)
               <= AtMostOnce(SetsOf(Company_Embeddings, t, p))
          /\ \A e \in EntriesFrom(Dir(t).docs', p) :
               CopiesIn(e, Dir(t).docs') <= AtMostOnce(CopiesIn(e, Dir(t).docs))]_vars

\* C6: when a Document record exists for (company_id, pdf_path), whatever its
\* status, upload_file returns True and reprocesses nothing: no record, chunk
\* or index changes.
C6_ExistingRecordShortCircuits ==
  [][\A t \in Tenants, p \in Paths :
       (IsUpload(t, p) /\ FindByPath(Company_Documents, t, p) # {})
       => /\ last'.ok
          /\ Company_Documents' = Company_Documents
          /\ Company_Embeddings' = Company_Embeddings
          /\ disk' = disk]_vars

\* C7: what get_company_documents and retrieval return for a tenant was
\* created by an upload of that tenant, never by another tenant's.
C7_TenantIsolation ==
  \A t \in Tenants :
    /\ \A d \in GetCompanyDocuments(t) : d.company_id = t
    /\ \A B \in Indexes(t) : \A e \in BagToSet(B) : e.company_id = t
    /\ (last.op = "ask_question" /\ last.company_id = t)
         => \A e \in last.docs : e.company_id = t

\* tenant B was answered from its own chunks while tenant A holds chunks too
C7_Witness ==
  /\ last.op = "ask_question" /\ last.company_id = "B" /\ last.out = "answer"
  /\ last.docs # {}
  /\ ChunksOf("A") # {}
  /\ GetCompanyDocuments("A") # {} /\ GetCompanyDocuments("B") # {}

ConversationOf(t) == {c \in Company_Conversations : c.company_id = t}

\* C8: a call on the agent of one tenant leaves every other tenant's Document
\* records, chunks, persist directory, saved conversation and agent as they
\* were.
C8_OtherTenantsUntouched ==
  [][\A t \in Tenants :
       t # last'.company_id
       => /\ DocsOf(t)' = DocsOf(t)
          /\ ChunksOf(t)' = ChunksOf(t)
          /\ Dir(t)' = Dir(t)
          /\ ConversationOf(t)' = ConversationOf(t)
          /\ agent'[t] = agent[t]]_vars

\* tenant A wiped its data while tenant B holds records, chunks and an index
C8_Witness ==
  /\ last.op = "delete_company_data" /\ last.company_id = "A"
  /\ DocsOf("B") # {} /\ ChunksOf("B") # {} /\ Dir("B").exists
  /\ agent["B"].rag_chain.set

\* C9: an upload whose file yields no chunk (no page, or pages without text)
\* returns False, leaves the record failed with an error message, writes no
\* chunk and neither builds nor modifies the index.
C9_EmptyFileFails ==
  [][\A t \in Tenants, p \in Paths, c \in Contents, e \in BOOLEAN :
       (/\ NumChunks(p, c) = 0
        /\ ~AlreadyProcessed(Company_Documents, disk, t, p)
        /\ UploadFile(t, p, c, "none", e))
       => /\ ~last'.ok
          /\ FindByPath(Company_Documents', t, p) # {}
          /\ \A d \in FindByPath(Company_Documents', t, p) :
               d.processing_status = "failed" /\ d.error_message
          /\ Company_Embeddings' = Company_Embeddings
          /\ disk' = disk
          /\ agent'[t].vector_store = agent[t].vector_store
          /\ agent'[t].rag_chain = agent[t].rag_chain]_vars

\* C10: a record that is completed or failed keeps its status for as long as
\* it exists: no later call changes it.
C10_TerminalStatusIsFinal ==
  [][\A d \in Company_Documents : \A d2 \in Company_Documents' :
       (d.processing_status \in {"completed", "failed"} /\ d2._id = d._id)
       => d2.processing_status = d.processing_status]_vars

\* C11: when loading, the index build, the chunk persistence or the completion
\* update raises during an ingestion, upload_file returns False and the record
\* of the path ends failed with the error message recorded.
C11_UploadFailureIsReported ==
  [][\A t \in Tenants, p \in Paths, f \in {"load", "build", "store", "complete"} :
       (/\ ~AlreadyProcessed(Company_Documents, disk, t, p)
        /\ UploadFile(t, p, "text", f, TRUE))
       => /\ ~last'.ok
          /\ FindByPath(Company_Documents', t, p) # {}
          /\ \A d \in FindByPath(Company_Documents', t, p) :
               d.processing_status = "failed" /\ d.error_message]_vars

\* C12: when upload_file has returned True the record of the path is completed
\* and its total_chunks is the number of chunks of the path in the chunk
\* store; when it has returned False the record is failed.
C12_ResultMatchesRecord ==
  last.op = "upload_file" =>
    LET R == FindByPath(Company_Documents, last.company_id, last.arg)
    IN /\ R # {}
       /\ \A d \in R :
            IF last.ok
            THEN /\ d.processing_status = "completed"
                 /\ d.total_chunks =
                      Cardinality(ChunksFrom(Company_Embeddings, last.company_id, last.arg))
            ELSE d.processing_status = "failed"

\* the step is an ingestion by upload_file(p) of a file holding c that returned
\* True
Ingested(t, p, c) ==
  /\ ~AlreadyProcessed(Company_Documents, disk, t, p)
  /\ \E e \in BOOLEAN : UploadFile(t, p, c, "none", e)
  /\ last'.ok

AllEntries == {[company_id |-> t, source |-> p, chunk_index |-> i] :
                 t \in Tenants, p \in Paths, i \in 0..2}

Min(a, b) == IF a < b THEN a ELSE b

\* C14: the history an agent retains is made of the min(k, 10) most recent of
\* the k exchanges answered since it was empty, in the order asked.
C14_HistoryIsLastTen ==
  \A t \in Tenants :
    LET h == agent[t].conversation_history
        k == Len(asked[t])
    IN /\ Len(h) = Min(k, HistoryLimit)
       /\ \A i \in 1..Len(h) : h[i] = asked[t][k - Len(h) + i]

\* more than ten exchanges were answered, the oldest dropped differing from
\* the oldest kept
C14_Witness ==
  /\ Len(asked["A"]) > HistoryLimit
  /\ Len(agent["A"].conversation_history) = HistoryLimit
  /\ asked["A"][1] # agent["A"].conversation_history[1]
  /\ last.op = "ask_question" /\ last.out = "answer"

\* C15: the conversation history of an agent and its list of response times
\* have the same length in every state.
C15_HistoryAndTimesSameLength ==
  \A t \in Tenants :
    Len(agent[t].conversation_history) = Len(agent[t].response_times)

\* C16: a failure of the reranker, at set-up or during a query, does not fail
\* the query: ask_question on an agent with a chain answers from the top 5
\* candidates of the index.
C16_RerankerFailureFallsBack ==
  [][\A t \in Tenants, q \in Questions \cup ChatQuestions :
       (agent[t].rag_chain.set /\ AskQuestion(t, q, "rerank"))
       => /\ last'.out = "answer"
          /\ Cardinality(last'.docs) =
               Min(TopN, Cardinality(BagToSet(agent[t].rag_chain.docs)))]_vars

\* C17: a question asked without a ready chain is answered by the sentinel,
\* as a value, by ask_question and by RetrievalEngine.query.
C17_NoIndexGivesSentinel ==
  [][\A t \in Tenants, q \in Questions \cup ChatQuestions :
       /\ (~agent[t].rag_chain.set /\ AskQuestion(t, q, "none"))
            => last'.out = "sentinel"
       /\ RetrievalEngineQuery(t, q, FALSE, "none")
            => last'.out = "sentinel"]_vars

\* C18: ask_question returns a value whatever raises: the error string when
\* the chain invocation raises, and the answer, with the exchange kept, when
\* saving the history raises.
C18_AskNeverRaises ==
  [][\A t \in Tenants, q \in Questions \cup ChatQuestions :
       /\ (last'.op = "ask_question") => last'.out \in {"sentinel", "error", "answer"}
       /\ (agent[t].rag_chain.set /\ AskQuestion(t, q, "invoke"))
            => last'.out = "error"
       /\ (agent[t].rag_chain.set /\ AskQuestion(t, q, "save"))
            => /\ last'.out = "answer"
               /\ agent'[t].conversation_history # <<>>
               /\ agent'[t].conversation_history[Len(agent'[t].conversation_history)]
                    = <<q, "answer">>]_vars

\* the answer was returned although the history could not be saved
C18_Witness ==
  /\ last.op = "ask_question" /\ last.out = "answer"
  /\ agent[last.company_id].conversation_history # <<>>
  /\ \A c \in ConversationOf(last.company_id) :
       c.history # agent[last.company_id].conversation_history

\* s is r with x added at the end, the oldest dropped if that makes more than n
AppendedTo(s, r, x, n) ==
  /\ s # <<>>
  /\ s[Len(s)] = x
  /\ Len(s) = Min(Len(r) + 1, n)
  /\ \A i \in 1..(Len(s) - 1) : s[i] = r[Len(r) + 1 - Len(s) + i]

\* C19: ask_question appends exactly one exchange and one response time when
\* it answers, and leaves the history and the response times as they were
\* when it returns the sentinel or the error string.
C19_AppendOnlyOnAnswer ==
  [][\A t \in Tenants :
       (last'.op = "ask_question" /\ last'.company_id = t)
       => IF last'.out = "answer"
          THEN /\ AppendedTo(agent'[t].conversation_history,
                             agent[t].conversation_history,
                             <<last'.arg, "answer">>, HistoryLimit)
               /\ AppendedTo(agent'[t].response_times,
                             agent[t].response_times, "time", HistoryLimit)
          ELSE /\ last'.out \in {"sentinel", "error"}
               /\ agent'[t].conversation_history = agent[t].conversation_history
               /\ agent'[t].response_times = agent[t].response_times]_vars

\* a failed invocation left a history that already held exchanges
C19_Witness ==
  /\ last.op = "ask_question" /\ last.out = "error"
  /\ Len(agent[last.company_id].conversation_history) > 1
  /\ Len(agent[last.company_id].response_times) > 1

\* C20: delete_document of a file name the tenant has no record of returns
\* the not-found result and changes nothing of the tenant.
C20_DeleteUnknownIsNotFound ==
  [][\A t \in Tenants, n \in FileNames :
       (/\ last'.op = "delete_document" /\ last'.company_id = t /\ last'.arg = n
        /\ \A d \in DocsOf(t) : d.file_name # n)
       => /\ ~last'.ok /\ last'.out = "not found"
          /\ Company_Documents' = Company_Documents
          /\ Company_Embeddings' = Company_Embeddings
          /\ disk' = disk
          /\ agent' = agent]_vars

\* a tenant with a document and a chain asked for the deletion of a file name
\* that only the other tenant has
C20_Witness ==
  /\ last.op = "delete_document" /\ last.out = "not found"
  /\ \A d \in DocsOf(last.company_id) : d.file_name # last.arg
  /\ \E d \in Company_Documents : d.file_name = last.arg
  /\ DocsOf(last.company_id) # {}
  /\ agent[last.company_id].rag_chain.set

\* C21: two upload_file / delete_document calls of one tenant whose steps
\* interleave can return with the chunk store and the live index holding
\* different chunk sets; a call that ran with no other call in progress, from a
\* state where they hold the same chunks, returns with them holding the same.
C21_CallAloneKeepsStoreAndIndex ==
  [][\A i \in Threads, t \in Tenants :
       (/\ threads[i].pc # "idle"
        /\ threads'[i].pc = "idle"
        /\ threads[i].company_id = t
        /\ threads[i].alone
        /\ threads[i].consistent)
       => StoreIsIndex(t)']_vars

\* both calls have returned, they overlapped, and store and index differ
C21_Witness ==
  /\ \A i \in Threads : threads[i].pc = "idle"
  /\ last.op \in {"upload_file", "delete_document"}
  /\ last.ok
  /\ ~StoreIsIndex("A")

\* C22: in an upload_file execution that reaches the loader, the Document
\* record is there with status processing before the file is loaded, split,
\* embedded or indexed, and a record stays there at every later point of the
\* ingestion, so that a crash at any of them leaves a record.
C22_RecordBeforeIngestion ==
  \A i \in Threads :
    (/\ threads[i].op = "upload_file"
     /\ threads[i].alone
     /\ threads[i].pc \in {"u_load", "u_build", "u_store", "u_complete", "u_chain"})
    => /\ FindByPath(Company_Documents, threads[i].company_id, threads[i].arg) # {}
       /\ threads[i].pc \in {"u_load", "u_build", "u_store", "u_complete"}
          => \A d \in FindByPath(Company_Documents, threads[i].company_id,
                                  threads[i].arg) :
               d.processing_status = "processing"

\* an ingestion stopped after the index build and before the chunk store is
\* written has its record, still processing
C22_Witness ==
  \E i \in Threads :
    /\ threads[i].pc = "u_store"
    /\ threads[i].alone
    /\ \E d \in FindByPath(Company_Documents, threads[i].company_id, threads[i].arg) :
         d.processing_status = "processing"

\* C23: every chunk of Company_Embeddings carries the _id of a Document record
\* of its company as document_id.
C23_ChunksReferToTheirDocument ==
  \A c \in Company_Embeddings :
    \E d \in DocsOf(c.company_id) : c.document_id = Str(d._id)

\* C24: an upload_file that returns False leaves the chunk store and the
\* persisted index of the company as they were: no chunk of the file was
\* added to either.
C24_FailedUploadAddsNothing ==
  [][\A t \in Tenants :
       (last'.op = "upload_file" /\ last'.company_id = t /\ ~last'.ok)
       => /\ Company_Embeddings' = Company_Embeddings
          /\ Dir(t)' = Dir(t)]_vars

\* C25: ask_question answers (neither sentinel nor error string) only for a
\* company that has a completed Document record.
C25_AnswerNeedsCompletedDocument ==
  (last.op = "ask_question" /\ last.out = "answer")
  => \E d \in DocsOf(last.company_id) : d.processing_status = "completed"

C27_DeleteLeavesIndexOfStore ==
  DeleteSucceeded =>
    LET t == last.company_id
    IN IF ChunksOf(t) = {}
       THEN agent[t].vector_store = NoStore /\ agent[t].rag_chain = NoChain
       ELSE /\ agent[t].vector_store.docs = EntriesOf(ChunksOf(t))
            /\ agent[t].rag_chain.set
            /\ agent[t].rag_chain.docs = EntriesOf(ChunksOf(t))

\* C28: the first ask_question on an agent after its delete_company_data
\* returns the sentinel, the history of the agent being empty.
C28_WipedAgentAnswersSentinel ==
  [][\A t \in Tenants :
       (/\ last.op = "delete_company_data" /\ last.company_id = t
        /\ last'.op = "ask_question" /\ last'.company_id = t)
       => /\ last'.out = "sentinel"
          /\ agent'[t].conversation_history = <<>>]_vars

\* C29: when reset_rag has returned success the company has no Document
\* record, chunk, saved conversation or persist directory left, and no agent
\* in the cache.
C29_ResetLeavesNothing ==
  [][\A t \in Tenants, f \in WipeFaults :
       (ResetRag(t, f) /\ last'.out = "success")
       => /\ DocsOf(t)' = {}
          /\ ChunksOf(t)' = {}
          /\ ConversationOf(t)' = {}
          /\ ~Dir(t)'.exists
          /\ ~cache'[t].cached]_vars

\* C30: between two resets at most one agent is constructed for a tenant,
\* whatever the interleaving of the requests.
C30_OneAgentPerTenant ==
  \A t \in Tenants : cache[t].constructed <= 1

====
